---------------------------- MODULE Spec2Model ----------------------------
(***************************************************************************)
(* A model of portable_binary.c: the big-endian codec for int32_t, float   *)
(* and MyStruct over a stdio stream, and the main program that writes one  *)
(* record to data.bin and reads it back.                                   *)
(*                                                                         *)
(* Numbers.  TLC's integers are 32-bit, so an int32_t is an Int, and a     *)
(* uint32_t is a pair of 16-bit halves [hi, lo].  A float is its binary32  *)
(* storage, the fields [sign, exponent, fraction]; two floats are equal    *)
(* here exactly when their 32 storage bits are equal.                      *)
(*                                                                         *)
(* Two constructs of the source have no meaning in ISO C and are modelled  *)
(* by what GCC, Clang and MSVC all generate for them: bytes[0] << 24 with  *)
(* bytes[0] >= 0x80 (line 47, 55) wraps into the sign bit, and a read      *)
(* through a pointer cast to the other type (line 34, 56) reads the same   *)
(* 32 bits of storage under that type.  The automatic array bytes[4] that  *)
(* fread did not fill (line 45, 53) and the automatic read_s that          *)
(* read_struct did not assign (line 88) are indeterminate: they hold any   *)
(* value, drawn here from Indeterminate.                                   *)
(***************************************************************************)
EXTENDS Integers, Sequences, FiniteSets, TLC

VARIABLES
    disk,     \* the bytes of data.bin
    file,     \* the FILE* of the caller: [mode, pos]
    call,     \* the last codec call on the open stream, as its caller saw it
    echo,     \* the write_int32 of the value read last, to a second sink
    log,      \* the write calls whose bytes data.bin holds whole, in order
    pc,       \* main's position ("none": main is not the caller)
    read_s,   \* main's automatic variable read_s
    printed   \* what main's printf was given

vars == <<disk, file, call, echo, log, pc, read_s, printed>>

\* The most bytes the medium of a sink has room for.
MaxLen == 8

INT32_MAX == 2147483647
INT32_MIN == -INT32_MAX - 1

Min(a, b) == IF a < b THEN a ELSE b
Max(a, b) == IF a > b THEN a ELSE b

Pow2Table ==
    <<1, 2, 4, 8, 16, 32, 64, 128, 256, 512, 1024, 2048, 4096, 8192, 16384,
      32768, 65536, 131072, 262144, 524288, 1048576, 2097152, 4194304,
      8388608, 16777216, 33554432, 67108864, 134217728, 268435456,
      536870912, 1073741824>>

\* 2^n for n in 0..30.
Pow2(n) == Pow2Table[n + 1]

----------------------------------------------------------------------------
(* C's operators on int (32-bit two's complement) *)

\* Shr with a slip: x / 2^n, which rounds a negative x towards zero.
Shr_div(x, n) ==
    IF x < 0 /\ x % Pow2(n) # 0 THEN (x \div Pow2(n)) + 1 ELSE x \div Pow2(n)

\* x >> n on an int: GCC's arithmetic shift, the floor of x / 2^n.
Shr(x, n) == x \div Pow2(n)

\* x & 0xFF on an int: the low 8 bits of the two's-complement pattern.
AndFF(x) == x % 256

\* Byte j (0 the lowest, 3 the highest) of the two's-complement pattern of x.
Lane(x, j) == (x \div Pow2(8 * j)) % 256

\* The int whose two's-complement pattern has the bytes b3 b2 b1 b0.
FromLanes(b3, b2, b1, b0) ==
    (IF b3 >= 128 THEN b3 - 256 ELSE b3) * 16777216 + b2 * 65536 + b1 * 256
    + b0

\* a | b on two 4-bit values, bit by bit.
OrNibble(a, b) ==
    Max(a % 2, b % 2) + 2 * Max((a \div 2) % 2, (b \div 2) % 2)
    + 4 * Max((a \div 4) % 2, (b \div 4) % 2) + 8 * Max(a \div 8, b \div 8)

\* OrNibble tabulated: entry 16 * a + b + 1 is a | b.
OrNibbleTable ==
    [i \in 1..256 |-> OrNibble((i - 1) \div 16, (i - 1) % 16)] \o <<>>

\* a | b on two 8-bit values.
OrByte(a, b) ==
    16 * OrNibbleTable[16 * (a \div 16) + (b \div 16) + 1]
    + OrNibbleTable[16 * (a % 16) + (b % 16) + 1]

\* x | y on two ints: the OR of their two's-complement patterns, byte by byte.
BitOr(x, y) ==
    FromLanes(OrByte(Lane(x, 3), Lane(y, 3)), OrByte(Lane(x, 2), Lane(y, 2)),
              OrByte(Lane(x, 1), Lane(y, 1)), OrByte(Lane(x, 0), Lane(y, 0)))

\* b << n for a uint8_t b promoted to int, n in {8, 16, 24}: the low 32 - n
\* bits of b move up, bit 31 - n becomes the sign bit.
Shl(b, n) ==
    LET keep == b % Pow2(32 - n)
    IN  IF keep >= Pow2(31 - n)
        THEN (keep - Pow2(32 - n)) * Pow2(n)
        ELSE keep * Pow2(n)

----------------------------------------------------------------------------
(* uint32_t and float *)

\* The conversion of an int to uint32_t (its value modulo 2^32).
ToU32(x) == [hi |-> (x \div 65536) % 65536, lo |-> x % 65536]

\* (u >> n) & 0xFF on a uint32_t, n in {0, 8, 16, 24}.
ShrAndFF(u, n) ==
    IF n >= 16
    THEN (u.hi \div Pow2(n - 16)) % 256
    ELSE ((u.hi % Pow2(n)) * Pow2(16 - n) + u.lo \div Pow2(n)) % 256

F32(sign, exponent, fraction) ==
    [sign |-> sign, exponent |-> exponent, fraction |-> fraction]

\* The read of value through a uint32_t pointer (line 34): the 32 bits of
\* the float's storage as a uint32_t.
FloatAsU32(f) ==
    [hi |-> f.sign * 32768 + f.exponent * 128 + f.fraction \div 65536,
     lo |-> f.fraction % 65536]

\* U32AsFloat with a slip: the value passes through a register that turns
\* every NaN into the default NaN (0x7FC00000).
U32AsFloat_quiet(u) ==
    IF (u.hi \div 128) % 256 = 255 /\ (u.hi % 128) * 65536 + u.lo # 0
    THEN F32(0, 255, 4194304)
    ELSE F32(u.hi \div 32768, (u.hi \div 128) % 256,
             (u.hi % 128) * 65536 + u.lo)

\* The read of as_int through a float pointer (line 56): the 32 bits of
\* the uint32_t as a float's storage.
U32AsFloat(u) ==
    F32(u.hi \div 32768, (u.hi \div 128) % 256, (u.hi % 128) * 65536 + u.lo)

----------------------------------------------------------------------------
(* stdio *)

\* What the bytes of an object with automatic storage hold before it is
\* assigned: a zeroed stack, or a debug build's fill pattern 0xCC.
Indeterminate == {0, 204}

\* fwrite(bytes, 4, 1, file) on a sink that takes k of the 4 bytes: it
\* returns 1 when the sink takes them all and 0 when it rejects the write.
fwrite(d, bytes, k) ==
    [disk |-> d \o SubSeq(bytes, 1, k), n |-> IF k = 4 THEN 1 ELSE 0]

\* fread(bytes, 4, 1, file): the bytes left in the source, at most 4, go to
\* the front of the buffer and the rest of it keeps what it held (junk);
\* it returns 1 only when 4 bytes were read.
fread(d, pos, junk) ==
    LET got == Min(Len(d) - pos, 4)
        at(i) == IF i <= got THEN d[pos + i] ELSE junk[i]
    IN  [bytes |-> <<at(1), at(2), at(3), at(4)>>,
         pos |-> pos + got,
         n |-> IF got = 4 THEN 1 ELSE 0]

----------------------------------------------------------------------------
(* The codec *)

\* write_int32 with a slip: the host's little-endian order, least
\* significant byte first.
write_int32_le(d, value, k) ==
    LET bytes == <<AndFF(value), AndFF(Shr(value, 8)),
                   AndFF(Shr(value, 16)), AndFF(Shr(value, 24))>>
        w == fwrite(d, bytes, k)
    IN  [disk |-> w.disk, bufs |-> <<bytes>>, rets |-> <<w.n>>]

write_int32(d, value, k) ==
    LET bytes == <<AndFF(Shr(value, 24)), AndFF(Shr(value, 16)),
                   AndFF(Shr(value, 8)), AndFF(value)>>
        w == fwrite(d, bytes, k)
    IN  [disk |-> w.disk, bufs |-> <<bytes>>, rets |-> <<w.n>>]

write_float(d, value, k) ==
    LET as_int == FloatAsU32(value)
        bytes == <<ShrAndFF(as_int, 24), ShrAndFF(as_int, 16),
                   ShrAndFF(as_int, 8), ShrAndFF(as_int, 0)>>
        w == fwrite(d, bytes, k)
    IN  [disk |-> w.disk, bufs |-> <<bytes>>, rets |-> <<w.n>>]

SignExtend(b) == IF b >= 128 THEN b - 256 ELSE b

\* Assemble with a slip: bytes declared char, so that a byte of 0x80 or more
\* is promoted to a negative int.
Assemble_char(bytes) ==
    BitOr(BitOr(BitOr(Shl(SignExtend(bytes[1]), 24),
                      Shl(SignExtend(bytes[2]), 16)),
                Shl(SignExtend(bytes[3]), 8)), SignExtend(bytes[4]))

\* (bytes[0] << 24) | (bytes[1] << 16) | (bytes[2] << 8) | bytes[3]
Assemble(bytes) ==
    BitOr(BitOr(BitOr(Shl(bytes[1], 24), Shl(bytes[2], 16)),
                Shl(bytes[3], 8)), bytes[4])

read_int32(d, pos, junk) ==
    LET r == fread(d, pos, junk)
    IN  [ret |-> Assemble(r.bytes), pos |-> r.pos,
         bufs |-> <<r.bytes>>, rets |-> <<r.n>>]

read_float(d, pos, junk) ==
    LET r == fread(d, pos, junk)
        as_int == ToU32(Assemble(r.bytes))
    IN  [ret |-> U32AsFloat(as_int), pos |-> r.pos,
         bufs |-> <<r.bytes>>, rets |-> <<r.n>>]

MyStruct(id, value) == [id |-> id, value |-> value]

\* write_struct with a slip: the value field is left out.
write_struct_id_only(d, s, k1, k2) ==
    LET a == write_int32(d, s.id, k1)
    IN  [disk |-> a.disk, bufs |-> a.bufs, rets |-> a.rets]

write_struct(d, s, k1, k2) ==
    LET a == write_int32(d, s.id, k1)
        b == write_float(a.disk, s.value, k2)
    IN  [disk |-> b.disk, bufs |-> a.bufs \o b.bufs, rets |-> a.rets \o b.rets]

\* read_struct with a slip: the fields are read in the other order.
read_struct_value_first(d, pos, junk1, junk2) ==
    LET b == read_float(d, pos, junk2)
        a == read_int32(d, b.pos, junk1)
    IN  [s |-> MyStruct(a.ret, b.ret), pos |-> a.pos,
         bufs |-> b.bufs \o a.bufs, rets |-> b.rets \o a.rets]

read_struct(d, pos, junk1, junk2) ==
    LET a == read_int32(d, pos, junk1)
        b == read_float(d, a.pos, junk2)
    IN  [s |-> MyStruct(a.ret, b.ret), pos |-> b.pos,
         bufs |-> a.bufs \o b.bufs, rets |-> a.rets \o b.rets]

----------------------------------------------------------------------------
(* The values the callers pass *)

\* int32_t arguments: both ends of the range, both signs, and main's id.
Ints == {1, -1, 123, INT32_MIN, INT32_MAX}

\* 456.789f, the value main stores: 0x43E464FE.
F456_789 == F32(0, 135, 6579454)

\* float arguments: 456.789f, +0, -0, +infinity, -infinity and a signalling
\* NaN with a payload (0x7FA00001).
Floats ==
    {F456_789, F32(0, 0, 0), F32(1, 0, 0), F32(0, 255, 0), F32(1, 255, 0),
     F32(0, 255, 2097153)}

\* MyStruct arguments: main's record, a record whose 8 bytes all differ
\* (0x01020304 and the NaN 0xFFC56789), and records with a negative id and
\* a signalling NaN or a negative zero for value.
Structs ==
    {[id |-> 123, value |-> F456_789],
     [id |-> 16909060, value |-> F32(1, 255, 4548489)],
     [id |-> -1, value |-> F32(0, 255, 2097153)],
     [id |-> INT32_MIN, value |-> F32(1, 0, 0)]}

\* The bytes a file that this program did not write may hold.
ByteVals == {0, 127, 128, 255}

\* What data.bin may hold before the program touches it: up to 4 bytes.
InitialDisks ==
    {<<>>}
    \cup {<<a>> : a \in ByteVals}
    \cup {<<a, b>> : a \in ByteVals, b \in ByteVals}
    \cup {<<a, b, c>> : a \in ByteVals, b \in ByteVals, c \in ByteVals}
    \cup {<<a, b, c, e>> : a \in ByteVals, b \in ByteVals, c \in ByteVals,
                           e \in ByteVals}

\* The contents of an unassigned uint8_t bytes[4].
Junk == {<<a, a, a, a>> : a \in Indeterminate}

\* The contents of bytes[4] before an fread at pos, as far as the fread
\* leaves them: when it fills all 4 places, what they held is gone.
JunkAt(d, pos) ==
    IF Len(d) - pos >= 4 THEN {<<0, 0, 0, 0>>} ELSE Junk

\* How many of its 4 bytes a sink takes from one fwrite when the medium has
\* room for `room` more bytes: 4, or fewer when it rejects the write.
Taken(room) == Min(4, room)

----------------------------------------------------------------------------
(* The stream and the record of a call *)

\* A stream: its mode, its read position, and for a sink the room the
\* medium has left, in bytes.
Closed == [mode |-> "closed", pos |-> 0, room |-> 0]

\* fopen(name, "wb") and fopen(name, "rb") when they succeed.
fopen(mode, room) == [mode |-> mode, pos |-> 0, room |-> room]

\* The log's entry for a write call: what was written and where, when the
\* sink took all of its bytes, and nothing otherwise.
Logged(c) ==
    IF \A i \in DOMAIN c.rets : c.rets[i] = 1
    THEN <<[op |-> c.op, s |-> c.s, pos0 |-> c.pos0]>>
    ELSE <<>>

\* A codec function has one way out: it returns (void, an int32_t, a float)
\* and tells its caller nothing else.
Returned == "returned"

NoCall ==
    [op |-> "none", s |-> MyStruct(0, F32(0, 0, 0)), bufs |-> <<>>,
     rets |-> <<>>, pre |-> <<>>, pos0 |-> 0, status |-> Returned]

\* The record of a call: op, the record written or read (s), the buffers
\* handed to fwrite or filled by fread (bufs), what fwrite or fread returned
\* (rets), the file and the position before the call (pre, pos0).
Call(op, s, r, pre, pos0) ==
    [op |-> op, s |-> s, bufs |-> r.bufs, rets |-> r.rets, pre |-> pre,
     pos0 |-> pos0, status |-> Returned]

----------------------------------------------------------------------------
(* The codec under any caller *)

DoWriteInt32(value, k) ==
    LET w == write_int32(disk, value, k)
    IN  /\ disk' = w.disk
        /\ call' = Call("write_int32", MyStruct(value, F32(0, 0, 0)), w,
                        disk, Len(disk))
        /\ log' = log \o Logged(call')
        /\ echo' = NoCall
        /\ file' = [file EXCEPT !.room = file.room - (Len(w.disk) - Len(disk))]

DoWriteFloat(value, k) ==
    LET w == write_float(disk, value, k)
    IN  /\ disk' = w.disk
        /\ call' = Call("write_float", MyStruct(0, value), w, disk, Len(disk))
        /\ log' = log \o Logged(call')
        /\ echo' = NoCall
        /\ file' = [file EXCEPT !.room = file.room - (Len(w.disk) - Len(disk))]

DoWriteStruct(s, k1, k2) ==
    LET w == write_struct(disk, s, k1, k2)
    IN  /\ disk' = w.disk
        /\ call' = Call("write_struct", s, w, disk, Len(disk))
        /\ log' = log \o Logged(call')
        /\ echo' = NoCall
        /\ file' = [file EXCEPT !.room = file.room - (Len(w.disk) - Len(disk))]

DoReadInt32(junk) ==
    LET r == read_int32(disk, file.pos, junk)
    IN  /\ file' = [file EXCEPT !.pos = r.pos]
        /\ call' = Call("read_int32", MyStruct(r.ret, F32(0, 0, 0)), r,
                        disk, file.pos)
        /\ echo' = NoCall
        /\ UNCHANGED <<disk, log>>

DoReadFloat(junk) ==
    LET r == read_float(disk, file.pos, junk)
    IN  /\ file' = [file EXCEPT !.pos = r.pos]
        /\ call' = Call("read_float", MyStruct(0, r.ret), r, disk, file.pos)
        /\ echo' = NoCall
        /\ UNCHANGED <<disk, log>>

DoReadStruct(junk1, junk2) ==
    LET r == read_struct(disk, file.pos, junk1, junk2)
    IN  /\ file' = [file EXCEPT !.pos = r.pos]
        /\ call' = Call("read_struct", r.s, r, disk, file.pos)
        /\ echo' = NoCall
        /\ UNCHANGED <<disk, log>>

Init ==
    /\ disk \in InitialDisks
    /\ file = Closed
    /\ call = NoCall
    /\ echo = NoCall
    /\ log = <<>>
    /\ pc = "none"
    /\ read_s = MyStruct(0, F32(0, 0, 0))
    /\ printed = <<>>

OpenWb ==
    /\ pc = "none"
    /\ file.mode = "closed"
    /\ \E room \in 0..MaxLen : file' = fopen("wb", room)
    /\ disk' = <<>>
    /\ log' = <<>>
    /\ call' = NoCall
    /\ echo' = NoCall
    /\ UNCHANGED <<pc, read_s, printed>>

OpenRb ==
    /\ pc = "none"
    /\ file.mode = "closed"
    /\ file' = fopen("rb", 0)
    /\ call' = NoCall
    /\ echo' = NoCall
    /\ UNCHANGED <<disk, log, pc, read_s, printed>>

Close ==
    /\ pc = "none"
    /\ file.mode # "closed"
    /\ file' = Closed
    /\ call' = NoCall
    /\ echo' = NoCall
    /\ UNCHANGED <<disk, log, pc, read_s, printed>>

WriteInt32 ==
    /\ pc = "none"
    /\ file.mode = "wb"
    /\ \E value \in Ints : DoWriteInt32(value, Taken(file.room))
    /\ UNCHANGED <<pc, read_s, printed>>

WriteFloat ==
    /\ pc = "none"
    /\ file.mode = "wb"
    /\ \E value \in Floats : DoWriteFloat(value, Taken(file.room))
    /\ UNCHANGED <<pc, read_s, printed>>

WriteStruct ==
    /\ pc = "none"
    /\ file.mode = "wb"
    /\ \E s \in Structs :
           DoWriteStruct(s, Taken(file.room),
                         Taken(file.room - Taken(file.room)))
    /\ UNCHANGED <<pc, read_s, printed>>

ReadInt32 ==
    /\ pc = "none"
    /\ file.mode = "rb"
    /\ \E junk \in JunkAt(disk, file.pos) : DoReadInt32(junk)
    /\ UNCHANGED <<pc, read_s, printed>>

\* The caller writes the int32_t it has just read to a second sink, which
\* takes the 4 bytes.
EchoInt32 ==
    /\ pc = "none"
    /\ call.op = "read_int32"
    /\ echo = NoCall
    /\ echo' = Call("write_int32", call.s, write_int32(<<>>, call.s.id, 4),
                    <<>>, 0)
    /\ UNCHANGED <<disk, file, call, log, pc, read_s, printed>>

ReadFloat ==
    /\ pc = "none"
    /\ file.mode = "rb"
    /\ \E junk \in JunkAt(disk, file.pos) : DoReadFloat(junk)
    /\ UNCHANGED <<pc, read_s, printed>>

ReadStruct ==
    /\ pc = "none"
    /\ file.mode = "rb"
    /\ \E junk1 \in JunkAt(disk, file.pos),
          junk2 \in JunkAt(disk, Min(file.pos + 4, Len(disk))) :
           DoReadStruct(junk1, junk2)
    /\ UNCHANGED <<pc, read_s, printed>>

Next ==
    \/ OpenWb
    \/ OpenRb
    \/ Close
    \/ WriteInt32
    \/ WriteFloat
    \/ WriteStruct
    \/ ReadInt32
    \/ EchoInt32
    \/ ReadFloat
    \/ ReadStruct

Spec == Init /\ [][Next]_vars

----------------------------------------------------------------------------
(* main *)

\* MyStruct s = {123, 456.789}: the double 456.789 converted to float.
s == MyStruct(123, F456_789)

\* What the automatic read_s holds before read_struct assigns it: its 8
\* bytes are indeterminate.
Unassigned ==
    {MyStruct(Assemble(j1), U32AsFloat(ToU32(Assemble(j2)))) :
        j1 \in Junk, j2 \in Junk}

MainInit ==
    /\ disk \in InitialDisks
    /\ file = Closed
    /\ call = NoCall
    /\ echo = NoCall
    /\ log = <<>>
    /\ pc = "fopen_wb"
    /\ read_s \in Unassigned
    /\ printed = <<>>

\* line 81-82: fopen("data.bin", "wb") empties the file, or returns NULL and
\* the write is skipped.
MainOpenWb ==
    /\ pc = "fopen_wb"
    /\ \/ /\ \E room \in 0..MaxLen : file' = fopen("wb", room)
          /\ disk' = <<>>
          /\ log' = <<>>
          /\ pc' = "write_struct"
       \/ /\ pc' = "fopen_rb"
          /\ UNCHANGED <<disk, file, log>>
    /\ UNCHANGED <<call, echo, read_s, printed>>

\* line 84
MainWriteStruct ==
    /\ pc = "write_struct"
    /\ DoWriteStruct(s, Taken(file.room),
                     Taken(file.room - Taken(file.room)))
    /\ pc' = "fclose_wb"
    /\ UNCHANGED <<read_s, printed>>

\* line 85
MainCloseWb ==
    /\ pc = "fclose_wb"
    /\ file' = Closed
    /\ call' = NoCall
    /\ pc' = "fopen_rb"
    /\ UNCHANGED <<disk, echo, log, read_s, printed>>

\* line 89-90: fopen("data.bin", "rb"), or NULL and the read is skipped.
MainOpenRb ==
    /\ pc = "fopen_rb"
    /\ \/ /\ file' = fopen("rb", 0)
          /\ pc' = "read_struct"
       \/ /\ pc' = "printf"
          /\ UNCHANGED file
    /\ UNCHANGED <<disk, call, echo, log, read_s, printed>>

\* line 92
MainReadStruct ==
    /\ pc = "read_struct"
    /\ \E junk1 \in JunkAt(disk, file.pos),
          junk2 \in JunkAt(disk, Min(file.pos + 4, Len(disk))) :
           DoReadStruct(junk1, junk2)
    /\ read_s' = call'.s
    /\ pc' = "fclose_rb"
    /\ UNCHANGED printed

\* line 93
MainCloseRb ==
    /\ pc = "fclose_rb"
    /\ file' = Closed
    /\ call' = NoCall
    /\ pc' = "printf"
    /\ UNCHANGED <<disk, echo, log, read_s, printed>>

\* line 96
MainPrintf ==
    /\ pc = "printf"
    /\ printed' = <<read_s>>
    /\ pc' = "done"
    /\ UNCHANGED <<disk, file, call, echo, log, read_s>>

MainNext ==
    \/ MainOpenWb
    \/ MainWriteStruct
    \/ MainCloseWb
    \/ MainOpenRb
    \/ MainReadStruct
    \/ MainCloseRb
    \/ MainPrintf

MainSpec == MainInit /\ [][MainNext]_vars

----------------------------------------------------------------------------
(* The properties *)

\* The int whose two's-complement pattern is b[1] b[2] b[3] b[4], most
\* significant byte first: b[1]*2^24 + b[2]*2^16 + b[3]*2^8 + b[4], less 2^32
\* when b[1] >= 0x80.
BigEndianValue(b) ==
    (b[1] - (IF b[1] >= 128 THEN 256 ELSE 0)) * 16777216
    + b[2] * 65536 + b[3] * 256 + b[4]

\* The write calls in the log whose bytes start where the last call started.
WrittenAt(op) ==
    {i \in DOMAIN log : log[i].op = op /\ log[i].pos0 = call.pos0}

Accepted(c) == \A i \in DOMAIN c.rets : c.rets[i] = 1

\* C1: a read_int32 positioned at the 4 bytes that a write_int32(v) wrote
\* returns exactly v.
C1_IntRoundTrip ==
    call.op = "read_int32" =>
        \A i \in WrittenAt("write_int32") : call.s.id = log[i].s.id

C1_Witness ==
    /\ call.op = "read_int32"
    /\ call.pos0 = 4
    /\ \E i \in WrittenAt("write_int32") : log[i].s.id = INT32_MIN
    /\ call.s.id = INT32_MIN

\* C2: a read_float positioned at the 4 bytes that a write_float(p) wrote
\* returns a float with the same sign, exponent and fraction bits as p.
C2_FloatRoundTrip ==
    call.op = "read_float" =>
        \A i \in WrittenAt("write_float") : call.s.value = log[i].s.value

C2_Witness ==
    /\ call.op = "read_float"
    /\ \E i \in WrittenAt("write_float") :
           log[i].s.value = F32(0, 255, 2097153)
    /\ call.s.value = F32(0, 255, 2097153)

\* C3: the 4 bytes write_int32(v) hands to fwrite are the two's-complement
\* pattern of v, most significant byte first, so 1 gives 00 00 00 01 and -1
\* gives FF FF FF FF; a sink that takes them holds them in that order.
C3_BigEndianOrder ==
    call.op = "write_int32" =>
        /\ Len(call.bufs) = 1
        /\ Len(call.bufs[1]) = 4
        /\ \A i \in 1..4 : call.bufs[1][i] \in 0..255
        /\ BigEndianValue(call.bufs[1]) = call.s.id
        /\ call.s.id = 1 => call.bufs[1] = <<0, 0, 0, 1>>
        /\ call.s.id = -1 => call.bufs[1] = <<255, 255, 255, 255>>
        /\ Accepted(call) => disk = call.pre \o call.bufs[1]

C3_Witness ==
    /\ call.op = "write_int32"
    /\ call.s.id = -1
    /\ call.rets = <<1>>
    /\ disk = call.pre \o <<255, 255, 255, 255>>

\* C4: a read_int32 or read_float on a source with fewer than 4 bytes left
\* does not return as a successful decode does.
C4_TruncationSignalled ==
    (/\ call.op \in {"read_int32", "read_float"}
     /\ Len(disk) - call.pos0 < 4) => call.status # Returned

C6_RecordOrder ==
    /\ call.op = "write_struct" =>
           /\ call.bufs = write_int32(<<>>, call.s.id, 4).bufs
                          \o write_float(<<>>, call.s.value, 4).bufs
           /\ Accepted(call) =>
                  disk = call.pre \o call.bufs[1] \o call.bufs[2]
    /\ (call.op = "read_struct" /\ Accepted(call)) =>
           /\ call.bufs[1] = SubSeq(disk, call.pos0 + 1, call.pos0 + 4)
           /\ call.bufs[2] = SubSeq(disk, call.pos0 + 5, call.pos0 + 8)
           /\ file.pos = call.pos0 + 8
    /\ call.op = "read_struct" =>
           \A i \in WrittenAt("write_struct") : call.s = log[i].s

C6_Witness ==
    /\ call.op = "read_struct"
    /\ \E i \in WrittenAt("write_struct") : log[i].s = s
    /\ call.s = s

\* C7: a read_struct on a source with fewer than 8 bytes left does not
\* return as a successful decode does.
C7_NoPartialRecord ==
    (call.op = "read_struct" /\ Len(disk) - call.pos0 < 8) =>
        call.status # Returned

\* C8: on any 4 bytes read_int32 returns the int32_t whose two's-complement
\* pattern they are, negative exactly when the first is 0x80 or more, and
\* write_int32 of that result hands fwrite the same 4 bytes.
C8_DecodeInverse ==
    (call.op = "read_int32" /\ Accepted(call)) =>
        /\ call.bufs[1] = SubSeq(disk, call.pos0 + 1, call.pos0 + 4)
        /\ call.s.id = BigEndianValue(call.bufs[1])
        /\ call.s.id < 0 <=> call.bufs[1][1] >= 128
        /\ call.s.id >= INT32_MIN
        /\ call.s.id <= INT32_MAX
        /\ echo.op = "write_int32" =>
               /\ echo.s.id = call.s.id
               /\ echo.bufs = call.bufs

C8_Witness ==
    /\ call.op = "read_int32"
    /\ call.bufs = << <<128, 0, 255, 127>> >>
    /\ call.rets = <<1>>
    /\ call.s.id < 0
    /\ echo.op = "write_int32"
    /\ echo.bufs = call.bufs

\* C9: a codec call one of whose fwrite or fread calls failed does not
\* return as a call all of whose writes and reads succeeded does.
C9_IOFailureReported ==
    (call.op # "none" /\ ~Accepted(call)) => call.status # Returned

\* C10: what main prints is the record {123, 456.789f} that it wrote and
\* read back.
C10_PrintsWhatItWrote ==
    pc = "done" => printed = <<s>>

=============================================================================
